---- MODULE Spec2Model ----
(***************************************************************************)
(* BuyOrdersSink of target-channeldock: the record-to-payload mapper       *)
(* (preprocess_record), the transient payload slot (_current_payload),     *)
(* the send step (upsert_record) and the retrying HTTP executor            *)
(* (request_api).                                                          *)
(*                                                                         *)
(* Python values are tagged records, so that None, strings, numbers and    *)
(* lists can be told apart and compared:  None is Null, "x" is Str("x"),   *)
(* 42 is Num("42"), [..] is List(<<..>>).  A dict is a function from its   *)
(* keys to such values.  An optional value (None or a dict) is a sequence  *)
(* of length 0 or 1.                                                       *)
(***************************************************************************)
EXTENDS Integers, Sequences, FiniteSets, TLC

VARIABLES current_payload, pc, pre, ups

vars == <<current_payload, pc, pre, ups>>

----------------------------------------------------------------------------
(* Python values *)

Null == [kind |-> "null", s |-> "", l |-> <<>>]

Str(x) == [kind |-> "str", s |-> x, l |-> <<>>]

Num(x) == [kind |-> "num", s |-> x, l |-> <<>>]

List(q) == [kind |-> "list", s |-> "", l |-> q]

EmptyDict == <<>>

None == <<>>

Some(x) == <<x>>

\* bool(v): None, "", 0 and [] are falsy
Truthy(v) ==
    CASE v.kind = "null" -> FALSE
      [] v.kind = "str" -> v.s # ""
      [] v.kind = "num" -> v.s # "0"
      [] OTHER -> v.l # <<>>

\* dict.get(k): None when the key is absent
Get(d, k) == IF k \in DOMAIN d THEN d[k] ELSE Null

\* d[k] = v
Put(d, k, v) == [x \in (DOMAIN d) \cup {k} |-> IF x = k THEN v ELSE d[x]]

----------------------------------------------------------------------------
(* The mapping rules: the hardcoded fallback of _load_mapping_config *)

load_mapping_config ==
    [buyOrders |->
        [mappings |-> <<
            [optiplyField |-> "externalid", targetField |-> "ref",
             transformation |-> "direct", required |-> TRUE,
             storeSeparately |-> FALSE],
            [optiplyField |-> "supplier_remoteId", targetField |-> "supplier_id",
             transformation |-> "direct", required |-> TRUE,
             storeSeparately |-> FALSE],
            [optiplyField |-> "transaction_date", targetField |-> "delivery_date",
             transformation |-> "date", required |-> FALSE,
             storeSeparately |-> FALSE] >>,
         defaults |-> <<
            [targetField |-> "delivery_type", value |-> Str("inbound"),
             required |-> TRUE] >>],
     buyOrderLines |->
        [nestedInOrder |-> TRUE,
         nestedPath |-> "items[]",
         mappings |-> <<
            [optiplyField |-> "optiplyWebshopProductRemoteID",
             targetField |-> "items[].ean"],
            [optiplyField |-> "quantity",
             targetField |-> "items[].amount"] >>]]

----------------------------------------------------------------------------
(* Library conversions, on the texts the records of this model carry *)

JsonListText == "[{\"optiplyWebshopProductRemoteID\": \"123\", \"quantity\": 5}]"

Line1 == ("optiplyWebshopProductRemoteID" :> Str("123")) @@ ("quantity" :> Num("5"))

Line2 == ("optiplyWebshopProductRemoteID" :> Str("456")) @@ ("quantity" :> Null)

Line3 == ("sku" :> Str("X-9"))

\* json.loads(text): the decoded value, or JSONDecodeError
json_loads(text) ==
    CASE text = JsonListText -> [ok |-> TRUE, value |-> List(<<Line1>>)]
      [] text = "[]" -> [ok |-> TRUE, value |-> List(<<>>)]
      [] text = "5" -> [ok |-> TRUE, value |-> Num("5")]
      [] text = "0" -> [ok |-> TRUE, value |-> Num("0")]
      [] OTHER -> [ok |-> FALSE, value |-> Null]

DateFormats == <<"%Y-%m-%d", "%Y-%m-%dT%H:%M:%SZ", "%Y-%m-%dT%H:%M:%S">>

\* datetime.strptime(text, fmt).strftime("%Y-%m-%d"), or ValueError
strptime(text, fmt) ==
    CASE text = "2024-03-05" /\ fmt = "%Y-%m-%d" ->
            [ok |-> TRUE, day |-> "2024-03-05"]
      [] text = "2024-03-05T10:00:00Z" /\ fmt = "%Y-%m-%dT%H:%M:%SZ" ->
            [ok |-> TRUE, day |-> "2024-03-05"]
      [] text = "2024-03-05T10:00:00" /\ fmt = "%Y-%m-%dT%H:%M:%S" ->
            [ok |-> TRUE, day |-> "2024-03-05"]
      [] OTHER -> [ok |-> FALSE, day |-> ""]

RECURSIVE try_formats(_, _)
try_formats(text, i) ==
    IF i > Len(DateFormats) THEN Str(text)
    ELSE LET r == strptime(text, DateFormats[i])
         IN  IF r.ok THEN Str(r.day) ELSE try_formats(text, i + 1)

\* _format_date: "" for a falsy value, the day for a text in a known format,
\* otherwise str(value)
format_date(value) ==
    IF ~Truthy(value) THEN Str("")
    ELSE IF value.kind = "str" THEN try_formats(value.s, 1)
    ELSE Str(value.s)

\* nested_path.replace("[]", "")
items_key_of(nested_path) ==
    IF nested_path = "items[]" THEN "items" ELSE nested_path

\* the item field a line mapping writes: its target field without the
\* "<items_key>[]." or "<items_key>." prefix
field_name_of(target_field, items_key) ==
    CASE items_key = "items" /\ target_field \in {"items[].ean", "items.ean"} -> "ean"
      [] items_key = "items" /\ target_field \in {"items[].amount", "items.amount"} -> "amount"
      [] OTHER -> target_field

----------------------------------------------------------------------------
(* 4.3 Record-to-payload mapper *)

\* a guard that takes every source order for an unmapped record
has_line_items_by_order_field(record) ==
    "line_items" \in DOMAIN record \/ "lineItems" \in DOMAIN record
    \/ "externalid" \in DOMAIN record

\* the presence guard of preprocess_record
has_line_items(record) ==
    "line_items" \in DOMAIN record \/ "lineItems" \in DOMAIN record

\* one line item through the line mappings
RECURSIVE map_line(_, _, _, _, _)
map_line(line, mappings, items_key, i, item_payload) ==
    IF i > Len(mappings) THEN item_payload
    ELSE LET m == mappings[i]
             field_name == field_name_of(m.targetField, items_key)
             value == Get(line, m.optiplyField)
         IN  map_line(line, mappings, items_key, i + 1,
                      IF value # Null THEN Put(item_payload, field_name, value)
                      ELSE item_payload)

RECURSIVE map_lines(_, _, _, _, _)
map_lines(line_items, mappings, items_key, i, items) ==
    IF i > Len(line_items) THEN items
    ELSE LET item_payload == map_line(line_items[i], mappings, items_key, 1, EmptyDict)
         IN  map_lines(line_items, mappings, items_key, i + 1,
                       IF item_payload # EmptyDict THEN Append(items, item_payload)
                       ELSE items)

\* the line-item value the mapper reads: line_items, else lineItems, else lines
select_line_items(record) ==
    IF Get(record, "line_items") # Null THEN Get(record, "line_items")
    ELSE IF Get(record, "lineItems") # Null THEN Get(record, "lineItems")
    ELSE Get(record, "lines")

\* the selected value after the JSON decoding of a text; decoded is FALSE when
\* the text is not JSON
decode_line_items(line_items) ==
    IF line_items.kind = "str"
    THEN LET r == json_loads(line_items.s)
         IN  [decoded |-> r.ok, value |-> r.value]
    ELSE [decoded |-> TRUE, value |-> line_items]

\* a decoder that lets JSONDecodeError out
process_line_items_strict(record, line_config, nested_path) ==
    LET items_key == items_key_of(nested_path)
        d == decode_line_items(select_line_items(record))
    IN  IF ~d.decoded
        THEN [raised |-> TRUE, exc |-> "JSONDecodeError", items |-> <<>>]
        ELSE IF ~Truthy(d.value) \/ d.value.kind # "list"
        THEN [raised |-> FALSE, exc |-> "", items |-> <<>>]
        ELSE [raised |-> FALSE, exc |-> "",
              items |-> map_lines(d.value.l, line_config.mappings, items_key, 1, <<>>)]

\* _process_line_items: the items, or an exception when the value is truthy
\* and cannot be iterated as a list of dicts
process_line_items(record, line_config, nested_path) ==
    LET items_key == items_key_of(nested_path)
        d == decode_line_items(select_line_items(record))
    IN  IF ~d.decoded THEN [raised |-> FALSE, exc |-> "", items |-> <<>>]
        ELSE IF ~Truthy(d.value) THEN [raised |-> FALSE, exc |-> "", items |-> <<>>]
        ELSE IF d.value.kind = "num"
             THEN [raised |-> TRUE, exc |-> "TypeError", items |-> <<>>]
        ELSE IF d.value.kind = "str"
             THEN [raised |-> TRUE, exc |-> "AttributeError", items |-> <<>>]
        ELSE [raised |-> FALSE, exc |-> "",
              items |-> map_lines(d.value.l, line_config.mappings, items_key, 1, <<>>)]

\* the order-level field mappings
RECURSIVE apply_mappings(_, _, _, _)
apply_mappings(record, mappings, i, payload) ==
    IF i > Len(mappings) THEN payload
    ELSE LET m == mappings[i]
             value == Get(record, m.optiplyField)
         IN  apply_mappings(record, mappings, i + 1,
                 IF m.storeSeparately \/ value = Null THEN payload
                 ELSE IF m.transformation = "direct"
                      THEN Put(payload, m.targetField, value)
                 ELSE IF m.transformation = "date"
                      THEN Put(payload, m.targetField, format_date(value))
                 ELSE payload)

\* the default values
RECURSIVE apply_defaults(_, _, _)
apply_defaults(defaults, i, payload) ==
    IF i > Len(defaults) THEN payload
    ELSE LET d == defaults[i]
         IN  apply_defaults(defaults, i + 1,
                 IF d.targetField \notin DOMAIN payload
                    \/ (d.required /\ Get(payload, d.targetField) = Null)
                 THEN Put(payload, d.targetField, d.value)
                 ELSE payload)

\* the payload preprocess_record builds from a record that passed the guard
build_payload(record) ==
    LET cfg == load_mapping_config
        mapped == apply_mappings(record, cfg.buyOrders.mappings, 1, EmptyDict)
        withDefaults == apply_defaults(cfg.buyOrders.defaults, 1, mapped)
    IN  IF cfg.buyOrderLines.nestedInOrder
        THEN LET r == process_line_items(record, cfg.buyOrderLines,
                                         cfg.buyOrderLines.nestedPath)
             IN  IF r.raised
                 THEN [raised |-> TRUE, exc |-> r.exc, payload |-> EmptyDict]
                 ELSE [raised |-> FALSE, exc |-> "",
                       payload |-> IF r.items # <<>>
                                   THEN Put(withDefaults, "items", List(r.items))
                                   ELSE withDefaults]
        ELSE [raised |-> FALSE, exc |-> "", payload |-> withDefaults]

\* preprocess_record(record) called with the slot holding `slot`: what it
\* returns, what the slot holds afterwards, and the path it took
preprocess_record(record, slot) ==
    IF ~has_line_items(record)
    THEN [raised |-> FALSE, exc |-> "", returned |-> Some(record),
          slot |-> slot, path |-> "skip"]
    ELSE LET b == build_payload(record)
         IN  IF b.raised
             THEN [raised |-> TRUE, exc |-> b.exc, returned |-> None,
                   slot |-> slot, path |-> "raise"]
             ELSE [raised |-> FALSE, exc |-> "", returned |-> Some(record),
                   slot |-> Some(b.payload), path |-> "transform"]

----------------------------------------------------------------------------
(* 4.2 HTTP request executor *)

RetriableStatusCodes == {429, 500, 502, 503, 504}

RetriedExceptions == {"RetriableAPIError", "ReadTimeout"}

max_tries == 5

\* a status test that also takes 400 for transient
retriable_status_with_400(status) == status \in RetriableStatusCodes \cup {400}

\* the status test of request_api
retriable_status(status) == status \in RetriableStatusCodes

\* response.raise_for_status(): HTTPError for a 4xx or 5xx status
raise_for_status(status) == 400 <= status /\ status < 600

\* one pass through the body of request_api, the transport answering `outcome`
send_once(outcome) ==
    IF outcome.kind = "timeout" THEN [raised |-> TRUE, exc |-> "ReadTimeout"]
    ELSE IF outcome.kind = "connerr" THEN [raised |-> TRUE, exc |-> "ConnectionError"]
    ELSE IF retriable_status(outcome.status)
         THEN [raised |-> TRUE, exc |-> "RetriableAPIError"]
    ELSE IF raise_for_status(outcome.status)
         THEN [raised |-> TRUE, exc |-> "HTTPError"]
    ELSE [raised |-> FALSE, exc |-> ""]

\* a retry rule that allows one call too many
retry_after_off_by_one(exc, tries) == exc \in RetriedExceptions /\ tries <= max_tries

\* backoff.on_exception: after the tries-th call raised exc, call again?
retry_after(exc, tries) == exc \in RetriedExceptions /\ tries < max_tries

----------------------------------------------------------------------------
(* 4.4 Upsert operation *)

ExceptionClasses ==
    {"RetriableAPIError", "ReadTimeout", "ConnectionError", "HTTPError",
     "JSONDecodeError", "AttributeError", "TypeError"}

\* an except clause that names the HTTP errors only
caught_http_only(exc) ==
    exc \in {"RetriableAPIError", "ReadTimeout", "ConnectionError", "HTTPError"}

\* the except clause of upsert_record
caught(exc) == exc \in ExceptionClasses

\* response_data.get("delivery_id") or response_data.get("id")
\*     or record.get("optiplyBuyOrderId", "")
delivery_id_of(response_data, record) ==
    IF Truthy(Get(response_data, "delivery_id")) THEN Get(response_data, "delivery_id")
    ELSE IF Truthy(Get(response_data, "id")) THEN Get(response_data, "id")
    ELSE IF "optiplyBuyOrderId" \in DOMAIN record THEN record["optiplyBuyOrderId"]
    ELSE Str("")

\* response.json() and the identifier lookup on a returned response
parse_response(outcome, record) ==
    IF outcome.json = "none"
    THEN [raised |-> TRUE, exc |-> "JSONDecodeError", id |-> Null]
    ELSE IF outcome.json = "nondict"
    THEN [raised |-> TRUE, exc |-> "AttributeError", id |-> Null]
    ELSE [raised |-> FALSE, exc |-> "", id |-> delivery_id_of(outcome.data, record)]

Success(id) == <<id, TRUE, EmptyDict>>

Failure == <<Str(""), FALSE, EmptyDict>>

\* how upsert_record ends when exc was raised inside its try block
on_exception(exc) ==
    IF caught(exc)
    THEN [result |-> Some(Failure), escaped |-> FALSE, exc |-> exc]
    ELSE [result |-> None, escaped |-> TRUE, exc |-> exc]

----------------------------------------------------------------------------
(* Inputs *)

MaxLines == 2

AllLines == <<Line1, Line2, Line3>>

\* the first n lines of Line1, Line2, Line3, Line1, ...
Lines(n) == [i \in 1..n |-> AllLines[((i - 1) % Len(AllLines)) + 1]]

Order1 ==
    ("externalid" :> Str("PO-1")) @@ ("supplier_remoteId" :> Num("42"))
    @@ ("transaction_date" :> Str("2024-03-05T10:00:00Z"))
    @@ ("optiplyBuyOrderId" :> Str("OB-1"))

Order2 ==
    ("externalid" :> Str("PO-2")) @@ ("supplier_remoteId" :> Null)
    @@ ("transaction_date" :> Str("05/03/2024"))
    @@ ("optiplyBuyOrderId" :> Null)

Order3 == ("ref" :> Str("PO-3")) @@ ("delivery_type" :> Str("return"))

LineItemFields ==
    {EmptyDict}
    \cup {"line_items" :> List(Lines(n)) : n \in 0..MaxLines}
    \cup {"lineItems" :> List(Lines(1)), "lines" :> List(Lines(1)),
          "line_items" :> Str("not json"), "lines" :> Str("not json"),
          "line_items" :> Str(JsonListText), "line_items" :> Str("5"),
          ("line_items" :> Null) @@ ("lineItems" :> Str("not json")),
          ("line_items" :> List(Lines(1))) @@ ("lineItems" :> Str("not json"))}

Records ==
    {Order1 @@ f : f \in LineItemFields}
    \cup {Order2 @@ f : f \in {EmptyDict, "line_items" :> List(Lines(1)),
                                "lines" :> List(Lines(1))}}
    \cup {Order3 @@ f : f \in {EmptyDict, "line_items" :> List(Lines(MaxLines))}}

Response(status, json, data) ==
    [kind |-> "response", status |-> status, json |-> json, data |-> data]

ReadTimeout == [kind |-> "timeout", status |-> 0, json |-> "none", data |-> EmptyDict]

ConnectionError == [kind |-> "connerr", status |-> 0, json |-> "none", data |-> EmptyDict]

Field(k, opt) == IF opt = None THEN EmptyDict ELSE k :> opt[1]

ResponseDicts ==
    { Field("delivery_id", a) @@ Field("id", b) :
        a \in {None, Some(Null), Some(Num("0")), Some(Str("D-1"))},
        b \in {None, Some(Str("I-1"))} }

FatalStatuses == {400, 404}

Outcomes ==
    {Response(200, "dict", d) : d \in ResponseDicts}
    \cup {Response(200, j, EmptyDict) : j \in {"none", "nondict"}}
    \cup {Response(304, "none", EmptyDict), Response(304, "dict", "id" :> Str("I-1"))}
    \cup {Response(s, "none", EmptyDict) : s \in FatalStatuses \cup RetriableStatusCodes}
    \cup {ReadTimeout, ConnectionError}

\* an answer with one of the five transient statuses, or a read timeout
Transient(outcome) ==
    \/ outcome.kind = "timeout"
    \/ outcome.kind = "response" /\ outcome.status \in {429, 500, 502, 503, 504}

----------------------------------------------------------------------------
(* State *)

\* pre: the preprocess_record call, when it was the most recent call
NoPre ==
    [called |-> FALSE, record |-> EmptyDict, slot_before |-> None,
     raised |-> FALSE, returned |-> None, path |-> "none",
     chained |-> FALSE]

\* ups: the upsert_record call, when it is in progress or was the most recent call
NoUps ==
    [called |-> FALSE, record |-> EmptyDict, follows_pre |-> FALSE,
     slot_before |-> None, body |-> None, tries |-> 0, retried |-> 0,
     outcome |-> None, done |-> FALSE, result |-> None, escaped |-> FALSE,
     exc |-> ""]

Init ==
    /\ current_payload = None
    /\ pc = "idle"
    /\ pre = NoPre
    /\ ups = NoUps

\* the framework calls preprocess_record(record)
PreprocessRecord(record) ==
    /\ pc = "idle"
    /\ LET r == preprocess_record(record, current_payload)
       IN  /\ current_payload' = r.slot
           /\ pre' = [called |-> TRUE, record |-> record,
                      slot_before |-> current_payload,
                      raised |-> r.raised, returned |-> r.returned,
                      path |-> r.path,
                      chained |-> pre.path = "transform"
                                  /\ pre.returned = Some(record)]
    /\ ups' = NoUps
    /\ UNCHANGED pc

\* the framework calls upsert_record(record): the payload lookup, the fallback
\* and the clearing of the slot, up to the first HTTP request
UpsertRecord(record) ==
    /\ pc = "idle"
    /\ LET fb == preprocess_record(record, None)
           frame == [NoUps EXCEPT !.called = TRUE, !.record = record,
                        !.slot_before = current_payload,
                        !.follows_pre = pre.called /\ ~pre.raised
                                        /\ pre.record = record]
       IN  IF current_payload # None
           THEN /\ ups' = [frame EXCEPT !.body = Some(current_payload[1])]
                /\ current_payload' = None
                /\ pc' = "requesting"
           ELSE IF fb.raised
           THEN LET e == on_exception(fb.exc)
                IN  /\ ups' = [frame EXCEPT !.done = TRUE, !.result = e.result,
                                  !.escaped = e.escaped, !.exc = e.exc]
                    /\ current_payload' = None
                    /\ pc' = "idle"
           ELSE /\ ups' = [frame EXCEPT !.body = fb.returned]
                /\ current_payload' = None
                /\ pc' = "requesting"
    /\ pre' = NoPre

\* one HTTP request of request_api, answered by `outcome`, and what follows it:
\* another try, or the end of upsert_record
Attempt(outcome) ==
    /\ pc = "requesting"
    /\ LET r == send_once(outcome)
           tries == ups.tries + 1
           sent == [ups EXCEPT !.tries = tries, !.outcome = Some(outcome),
                       !.retried = IF Transient(outcome)
                                   THEN ups.retried + 1 ELSE ups.retried]
       IN  IF r.raised /\ retry_after(r.exc, tries)
           THEN /\ ups' = sent
                /\ pc' = "requesting"
           ELSE IF r.raised
           THEN LET e == on_exception(r.exc)
                IN  /\ ups' = [sent EXCEPT !.done = TRUE, !.result = e.result,
                                  !.escaped = e.escaped, !.exc = e.exc]
                    /\ pc' = "idle"
           ELSE LET p == parse_response(outcome, ups.record)
                    e == on_exception(p.exc)
                IN  /\ ups' = IF p.raised
                              THEN [sent EXCEPT !.done = TRUE, !.result = e.result,
                                       !.escaped = e.escaped, !.exc = e.exc]
                              ELSE [sent EXCEPT !.done = TRUE,
                                       !.result = Some(Success(p.id))]
                    /\ pc' = "idle"
    /\ UNCHANGED <<current_payload, pre>>

Next ==
    \/ \E record \in Records : PreprocessRecord(record)
    \/ \E record \in Records : UpsertRecord(record)
    \/ \E outcome \in Outcomes : Attempt(outcome)

Spec == Init /\ [][Next]_vars

\* request_api runs to its end: every request is answered or raises
FairSpec == Spec /\ WF_vars(\E outcome \in Outcomes : Attempt(outcome))

----------------------------------------------------------------------------
(* Properties *)

LineItemSpellings == {"line_items", "lineItems", "lines"}

Returned == ups.called /\ pc = "idle"

LastOutcome == ups.outcome[1]

Succeeded == ups.result # None /\ ups.result[1][2] = TRUE

RetryDiscipline ==
    /\ ups.tries <= 5
    /\ ups.retried >= ups.tries - 1
    /\ (pc = "requesting" /\ ups.tries > 0 => Transient(LastOutcome))
    /\ (Returned /\ ups.retried = 5 => ups.tries = 5 /\ ups.result = Some(Failure))

\* C1 as stated: one upsert_record call issues at most 5 requests and retries
\* only after a transient answer; k < 5 transient answers followed by a 200
\* make k + 1 requests and a success; 5 transient answers make 5 requests and
\* the result ("", False, {}).
C1_AsStated ==
    /\ RetryDiscipline
    /\ (Returned /\ ups.outcome # None /\ LastOutcome.kind = "response"
            /\ LastOutcome.status = 200
        => ups.retried < 5 /\ ups.tries = ups.retried + 1 /\ Succeeded)

\* C1, amended: as stated, the success being that of a 200 whose body parses
\* as a JSON object; a 200 with any other body makes k + 1 requests too and is
\* reported as a failure.
C1_RetryBudget ==
    /\ RetryDiscipline
    /\ (Returned /\ ups.outcome # None /\ LastOutcome.kind = "response"
            /\ LastOutcome.status = 200
        => /\ ups.retried < 5
           /\ ups.tries = ups.retried + 1
           /\ (LastOutcome.json = "dict" => Succeeded)
           /\ (LastOutcome.json # "dict" => ups.result = Some(Failure)))

\* C1 witness: three 503-like answers, then a 200, reported as a success
C1_Witness ==
    /\ Returned /\ ups.tries = 4 /\ ups.retried = 3
    /\ LastOutcome.status = 200 /\ Succeeded

NoRetryOn(statuses) ==
    ups.called /\ ups.outcome # None /\ LastOutcome.kind = "response"
        /\ LastOutcome.status \in statuses
    => /\ ups.done /\ pc = "idle"
       /\ ups.exc = "HTTPError"
       /\ ups.tries = ups.retried + 1
       /\ ups.result = Some(Failure)

C3_ReturnsTuple ==
    Returned =>
        /\ ups.done /\ ~ups.escaped /\ ups.result # None
        /\ \/ ups.result = Some(Failure)
           \/ /\ ups.result[1][2] = TRUE /\ ups.result[1][3] = EmptyDict
              /\ ups.exc = "" /\ ups.outcome # None
              /\ LastOutcome.kind = "response"
        /\ (ups.exc # "" => ups.result = Some(Failure))

\* C3: every upsert_record call ends by returning a result tuple, and no
\* exception leaves it: (identifier, True, {}) after a request that returned,
\* ("", False, {}) whenever the fallback mapping, the request or the parsing
\* of the response raised.
C3_AlwaysReturns ==
    /\ []C3_ReturnsTuple
    /\ (pc = "requesting" ~> pc = "idle")

\* C3 witness: the fallback mapping raised and the call returned a failure
C3_Witness ==
    Returned /\ ups.exc = "TypeError" /\ ups.result = Some(Failure)

Has(d, k) == k \in DOMAIN d /\ d[k] # Null

\* C4 as stated: on success the identifier is the body's delivery_id if the body
\* has one, else the body's id if it has one, else the record's
\* optiplyBuyOrderId if the record has one, else the empty string.
C4_AsStated ==
    Returned /\ Succeeded =>
        ups.result[1][1] =
            IF Has(LastOutcome.data, "delivery_id") THEN LastOutcome.data["delivery_id"]
            ELSE IF Has(LastOutcome.data, "id") THEN LastOutcome.data["id"]
            ELSE IF Has(ups.record, "optiplyBuyOrderId")
                 THEN ups.record["optiplyBuyOrderId"]
            ELSE Str("")

HasLineList(record) ==
    \E k \in LineItemSpellings :
        /\ k \in DOMAIN record /\ record[k].kind = "list" /\ record[k].l # <<>>
        /\ \A j \in LineItemSpellings \ {k} : j \notin DOMAIN record

\* C5 as stated: for a record that carries its line items under one of
\* line_items, lineItems or lines, preprocess_record followed by upsert_record
\* POSTs the mapped payload, whose items are built from that list.
C5_AsStated ==
    ups.called /\ ups.follows_pre /\ HasLineList(ups.record) /\ ups.body # None
    => /\ ups.body = Some(build_payload(ups.record).payload)
       /\ "items" \in DOMAIN ups.body[1]

NoLineItemField(record) == \A k \in LineItemSpellings : k \notin DOMAIN record

\* C6: for a record with no line-item field, preprocess_record returns the
\* record unchanged, builds no payload and leaves the payload slot as it was.
C6_PassThrough ==
    pre.called /\ NoLineItemField(pre.record) =>
        /\ ~pre.raised
        /\ pre.returned = Some(pre.record)
        /\ pre.path = "skip"
        /\ current_payload = pre.slot_before

\* C6 witness: a pass-through call made while the slot held a payload
C6_Witness ==
    /\ pre.called /\ NoLineItemField(pre.record)
    /\ pre.slot_before # None /\ current_payload = pre.slot_before

NotJson(v) == v.kind = "str" /\ ~json_loads(v.s).ok

OrderLevelMapped(record, payload) ==
    /\ payload["delivery_type"] = Str("inbound")
    /\ (Has(record, "externalid") => payload["ref"] = record["externalid"])
    /\ (Has(record, "supplier_remoteId")
            => payload["supplier_id"] = record["supplier_remoteId"])
    /\ (Has(record, "transaction_date") => "delivery_date" \in DOMAIN payload)

\* C7 as stated: when the line-items field of a record is a text that is not
\* JSON, mapping raises nothing, the payload carries an empty items list with
\* the order-level fields and defaults mapped, and the record goes on to the
\* send step.
C7_AsStated ==
    /\ (pre.called /\ (\E k \in LineItemSpellings :
                          k \in DOMAIN pre.record /\ NotJson(pre.record[k]))
        => /\ ~pre.raised
           /\ current_payload # None
           /\ Get(current_payload[1], "items") = List(<<>>)
           /\ OrderLevelMapped(pre.record, current_payload[1]))

ReadsNotJson(record) ==
    \/ Has(record, "line_items") /\ NotJson(record["line_items"])
    \/ ~Has(record, "line_items") /\ Has(record, "lineItems")
        /\ NotJson(record["lineItems"])

\* C7, amended: when the line-items text the mapper reads (line_items, or
\* lineItems when line_items is absent or null) is not JSON, mapping raises
\* nothing, the payload has no items key at all, the order-level fields and
\* defaults are mapped, and the send step that follows POSTs that payload.
C7_BadJsonNoItems ==
    /\ (pre.called /\ ReadsNotJson(pre.record)
        => /\ ~pre.raised
           /\ pre.returned = Some(pre.record)
           /\ current_payload # None
           /\ "items" \notin DOMAIN current_payload[1]
           /\ OrderLevelMapped(pre.record, current_payload[1]))
    /\ (ups.called /\ ups.follows_pre /\ ReadsNotJson(ups.record)
        => /\ ups.body # None
           /\ "items" \notin DOMAIN ups.body[1]
           /\ OrderLevelMapped(ups.record, ups.body[1]))

\* C7 witness: the payload of a record whose line-items text is not JSON was
\* sent
C7_Witness ==
    /\ Returned /\ ups.follows_pre /\ ReadsNotJson(ups.record)
    /\ ups.tries > 0

\* C8 as stated: upsert_record(R) called with the slot empty POSTs the payload
\* the mapping rules build from R, not the raw record.
C8_AsStated ==
    ups.called /\ ups.slot_before = None /\ ups.body # None
        /\ (\E k \in LineItemSpellings : k \in DOMAIN ups.record)
    => /\ ups.body = Some(build_payload(ups.record).payload)
       /\ ups.body # Some(ups.record)

DerivedFrom(body, record) ==
    \/ body = record
    \/ ~build_payload(record).raised /\ body = build_payload(record).payload

\* C9 as stated: over any sequence of preprocess_record and upsert_record
\* calls, the slot is empty after every upsert_record return, and the body
\* upsert_record(R) POSTs is derived from R, never a payload built from another
\* record and left in the slot.
C9_AsStated ==
    /\ (Returned => current_payload = None)
    /\ (ups.called /\ ups.body # None => DerivedFrom(ups.body[1], ups.record))

\* C10 as stated: a second preprocess_record call, on the value the first one
\* returned, is a pass-through: it neither rebuilds nor overwrites the stored
\* payload.
C10_AsStated ==
    pre.called /\ pre.chained =>
        /\ pre.path = "skip"
        /\ current_payload = pre.slot_before

====
